---- MODULE Spec2Model ----
(***************************************************************************)
(* Inteliome Metadata Validator: the schema validator, the semantics       *)
(* validator (with its calculation grammar and its resolver) and the       *)
(* batch driver of main.py, as state machines over parsed YAML documents.  *)
(*                                                                         *)
(* Documents are Python mappings.  A mapping is modelled as a sequence of  *)
(* <<key, value>> pairs in insertion order (Python dicts iterate in that   *)
(* order and the loader rejects duplicate keys).  A scalar or list value   *)
(* is a record [k, s, l]: k its Python type, s its text (strings,          *)
(* booleans, integers), l its items [k, s] (the elements of a list, the    *)
(* characters of a string that is spelled out).  Strings that a regular    *)
(* expression reads are sequences of one-character strings.                *)
(* A raised exception is a record [kind, key, cols]: the exception class,  *)
(* the key it names and, for the batched column check, the listed columns. *)
(***************************************************************************)
EXTENDS Integers, Sequences, FiniteSets, TLC

VARIABLES
    schemas_files,      \* main.py: the loaded (filename, schema) pairs
    semantics_files,    \* main.py: the loaded (filename, semantics) pairs
    pc,                 \* position of the driver / of the function under test
    idx,                \* index of the next document of the running loop
    outcomes,           \* what was logged per validated document, in order
    call,               \* argument of the pure function under test
    ret                 \* what the pure function under test returned/raised

vars == <<schemas_files, semantics_files, pc, idx, outcomes, call, ret>>

(***************************************************************************)
(* Bounds of the model.                                                    *)
(***************************************************************************)
MaxTokens == 4      \* tokens per generated calculation string
MaxRefs == 3        \* columns listed by one generated source binding
MaxDeviations == 2  \* parts in which a generated document departs from its base
MaxFiles == 2       \* schema files, and semantics files, of one batch run

(***************************************************************************)
(* Python values.                                                          *)
(***************************************************************************)
Item(kind, text) == [k |-> kind, s |-> text]
NoneV == [k |-> "none", s |-> "", l |-> <<>>]
StrV(t) == [k |-> "str", s |-> t, l |-> <<>>]
BoolV(t) == [k |-> "bool", s |-> t, l |-> <<>>]
IntV(t) == [k |-> "int", s |-> t, l |-> <<>>]
ListV(items) == [k |-> "list", s |-> "", l |-> items]
DictV == [k |-> "dict", s |-> "", l |-> <<>>]
\* a string given by its characters (what iterating it yields)
ChStr(chars) == [k |-> "str", s |-> "", l |-> [i \in 1..Len(chars) |-> Item("str", chars[i])]]
Chars(v) == [i \in 1..Len(v.l) |-> v.l[i].s]

\* bool(v): Python truthiness of a value
Truthy(v) ==
    CASE v.k = "none" -> FALSE
      [] v.k = "str" -> v.s # "" \/ v.l # <<>>
      [] v.k = "bool" -> v.s = "True"
      [] v.k = "int" -> v.s # "0"
      [] v.k = "list" -> v.l # <<>>
      [] OTHER -> TRUE

\* isinstance(v, str) and not v.strip()
BlankStr(v) ==
    /\ v.k = "str"
    /\ v.s \in {"", " ", "  "}
    /\ \A i \in 1..Len(v.l) : v.l[i].s \in {" ", "\t", "\n"}

(***************************************************************************)
(* Mappings as sequences of <<key, value>> pairs.                          *)
(***************************************************************************)
Keys(m) == {m[i][1] : i \in 1..Len(m)}
Has(m, key) == key \in Keys(m)
Get(m, key) == m[CHOOSE i \in 1..Len(m) : m[i][1] = key][2]

(***************************************************************************)
(* Exceptions.                                                             *)
(***************************************************************************)
Ok == [kind |-> "ok", key |-> "", cols |-> <<>>]
Raise(kind, key) == [kind |-> kind, key |-> key, cols |-> <<>>]
RaiseCols(kind, key, cols) == [kind |-> kind, key |-> key, cols |-> cols]
\* r1; r2 : the second statement runs only if the first did not raise
Then(r1, r2) == IF r1.kind # "ok" THEN r1 ELSE r2

(***************************************************************************)
(* Characters and the regular-expression primitives.  A pattern is an      *)
(* operator from a set of positions (characters consumed so far) to the    *)
(* set of positions its matches can end at; re.match succeeds iff some     *)
(* alternative of the backtracking search does, i.e. iff the final set     *)
(* contains an accepted end.                                               *)
(***************************************************************************)
LowerLetters == <<"a","b","c","d","e","f","g","h","i","j","k","l","m",
                  "n","o","p","q","r","s","t","u","v","w","x","y","z">>
UpperLetters == <<"A","B","C","D","E","F","G","H","I","J","K","L","M",
                  "N","O","P","Q","R","S","T","U","V","W","X","Y","Z">>
Digits == {"0","1","2","3","4","5","6","7","8","9"}
Range(f) == {f[i] : i \in DOMAIN f}

\* \w
WordChars == Range(LowerLetters) \cup Range(UpperLetters) \cup Digits \cup {"_"}
IsWord(c) == c \in WordChars
\* \s
IsSpace(c) == c \in {" ", "\t", "\n"}
\* re.IGNORECASE folding of one character
UpperOf == [c \in Range(LowerLetters) |-> UpperLetters[CHOOSE i \in 1..26 : LowerLetters[i] = c]]
Upper(c) == IF c \in DOMAIN UpperOf THEN UpperOf[c] ELSE c

\* `$`: at the end, or just before a trailing newline
AtEnd(s, p) == p = Len(s) \/ (p = Len(s) - 1 /\ s[Len(s)] = "\n")

\* a literal, case-insensitively
Lit(w, s, P) ==
    {p + Len(w) : p \in {q \in P : /\ q + Len(w) <= Len(s)
                                  /\ \A i \in 1..Len(w) : Upper(s[q + i]) = Upper(w[i])}}

\* \s*
RECURSIVE WsStar(_, _)
WsStar(s, P) ==
    LET Q == P \cup {p + 1 : p \in {q \in P : q < Len(s) /\ IsSpace(s[q + 1])}}
    IN  IF Q = P THEN P ELSE WsStar(s, Q)

(***************************************************************************)
(* The calculation grammar (SemanticsValidator._validate_calculation).     *)
(***************************************************************************)
\* basic_expr_pattern: one character of [\w\s\[\]\+\-\*\/\(\)]
BasicChar(c) == IsWord(c) \/ IsSpace(c) \/ c \in {"[", "]", "+", "-", "*", "/", "(", ")"}

\* basic_expr_pattern: [\w\s\[\]\+\-\*\/\(\)]+
RECURSIVE BasicStar(_, _)
BasicStar(s, P) ==
    LET Q == P \cup {p + 1 : p \in {q \in P : q < Len(s) /\ BasicChar(s[q + 1])}}
    IN  IF Q = P THEN P ELSE BasicStar(s, Q)
BasicExpr(s, P) ==
    BasicStar(s, {p + 1 : p \in {q \in P : q < Len(s) /\ BasicChar(s[q + 1])}})

\* supported_functions, in the order the pattern lists them
supported_functions ==
    << <<"S","U","M">>, <<"A","V","G">>, <<"C","O","U","N","T">>, <<"M","A","X">>,
       <<"M","I","N">>,
       <<"U","P","P","E","R">>, <<"L","O","W","E","R">>, <<"C","O","N","C","A","T">>,
       <<"S","U","B","S","T","R","I","N","G">>, <<"T","R","I","M">>,
       <<"L","E","N","G","T","H">>,
       <<"N","O","W">>, <<"D","A","T","E">>,
       <<"R","O","U","N","D">>,
       <<"C","A","S","E">>, <<"C","O","A","L","E","S","C","E">>,
       <<"N","U","L","L","I","F">> >>

\* func\s*\(\s*basic_expr\s*\)
FunctionCall(func, s, P) ==
    Lit(<<")">>, s, WsStar(s, BasicExpr(s, WsStar(s, Lit(<<"(">>, s, WsStar(s, Lit(func, s, P)))))))

\* _build_function_pattern: \s*(f1\s*\(...\)|f2\s*\(...\)|...)\s*
FunctionPattern(s, P) ==
    WsStar(s, UNION {FunctionCall(supported_functions[i], s, WsStar(s, P)) :
                        i \in 1..Len(supported_functions)})

\* _build_pattern(operators): \s*(op1|op2|...)\s*
OperatorPattern(operators, s, P) ==
    WsStar(s, UNION {Lit(operators[i], s, WsStar(s, P)) : i \in 1..Len(operators)})

logical_operators == << <<"A","N","D">>, <<"O","R">>, <<"N","O","T">> >>
comparison_operators == << <<"=">>, <<"!","=">>, <<"<">>, <<">">>, <<"<","=">>, <<">","=">> >>

\* nested_function_pattern: (function_pattern|basic_expr_pattern)
NestedFunctionPattern(s, P) == FunctionPattern(s, P) \cup BasicExpr(s, P)

\* (\s*comparison_pattern nested_function_pattern)*
RECURSIVE ComparisonGroups(_, _)
ComparisonGroups(s, P) ==
    LET Q == P \cup NestedFunctionPattern(s, OperatorPattern(comparison_operators, s, WsStar(s, P)))
    IN  IF Q = P THEN P ELSE ComparisonGroups(s, Q)

\* (\s*logical_pattern nested_function_pattern)*
RECURSIVE LogicalGroups(_, _)
LogicalGroups(s, P) ==
    LET Q == P \cup NestedFunctionPattern(s, OperatorPattern(logical_operators, s, WsStar(s, P)))
    IN  IF Q = P THEN P ELSE LogicalGroups(s, Q)

\* _build_complete_pattern, matched with re.match:
\* ^(nested(\s*cmp nested)*(\s*logic nested)*$)$
CompletePatternMatches(s) ==
    \E p \in LogicalGroups(s, ComparisonGroups(s, NestedFunctionPattern(s, {0}))) : AtEnd(s, p)

\* _validate_calculation(calculation)
_validate_calculation(calculation) ==
    IF calculation.k # "str" THEN Raise("InvalidFormat", "calculation value")
    ELSE IF ~CompletePatternMatches(Chars(calculation)) THEN Raise("InvalidFormat", "calculation")
    ELSE Ok

(***************************************************************************)
(* SemanticsValidator.  A semantics document is a record                   *)
(*   [present, source, attributes, metrics]                                *)
(* present: the top-level keys it has; source: [k, m] with m the bindings  *)
(* <<key, binding>>, a key being its '.'-separated segments; binding:      *)
(* [k, hasColumns, columns]; attributes, metrics: [k, m] with m the        *)
(* entries <<entry key, [k, m]>>, an entry's m being <<key, value>> pairs. *)
(* A schema document is [present, table_info, columns] (see below).        *)
(***************************************************************************)
\* segments that are not wholly \w+ (empty, or holding another character)
NonWordSegments == {"", "or-ders"}

\* a variant that keeps the extension (Path(s).name)
StemKeepsExtension(filename) == filename

\* Path(s).stem of a file name given by its '.'-separated segments
Stem(filename) == IF Len(filename) >= 2 THEN SubSeq(filename, 1, Len(filename) - 1) ELSE filename

\* semantics.get(key): the value, or None when the key is absent
SemGet(semantics, key) ==
    IF key \notin semantics.present THEN [k |-> "none", m |-> <<>>]
    ELSE IF key = "attributes" THEN semantics.attributes ELSE semantics.metrics
\* semantics.get(key, {})
SemGetOrEmpty(semantics, key) ==
    IF key \notin semantics.present THEN [k |-> "dict", m |-> <<>>] ELSE SemGet(semantics, key)
\* bool() of an attributes / metrics value
TruthyMap(v) == v.k # "none" /\ (v.k = "dict" => v.m # <<>>)

\* _check_required_keys
RECURSIVE FirstAbsent(_, _, _)
FirstAbsent(required_keys, present, i) ==
    IF i > Len(required_keys) THEN ""
    ELSE IF required_keys[i] \notin present THEN required_keys[i]
    ELSE FirstAbsent(required_keys, present, i + 1)

SemCheckRequiredKeys(semantics) ==
    LET absent == FirstAbsent(<<"folder", "type">>, semantics.present, 1)
    IN  IF absent # "" THEN Raise("ValueError", absent)
        ELSE IF /\ ~TruthyMap(SemGet(semantics, "attributes"))
                /\ ~TruthyMap(SemGet(semantics, "metrics"))
        THEN Raise("MissingKey", "attributes or metrics")
        ELSE Ok

\* _validate_source: one (key, value) of the loop
ValidateSourceEntry(key, binding) ==
    IF ~(Len(key) = 2 /\ key[1] = "schema" /\ key[2] \notin NonWordSegments)
    THEN Raise("InvalidKey", "source key")
    ELSE IF binding.k # "dict" \/ ~binding.hasColumns
    THEN Raise("InvalidFormat", "source binding")
    ELSE IF \/ binding.columns.k # "list"
            \/ \E i \in 1..Len(binding.columns.l) : binding.columns.l[i].k # "str"
    THEN Raise("InvalidFormat", "columns")
    ELSE Ok

RECURSIVE ValidateSourceFrom(_, _)
ValidateSourceFrom(m, i) ==
    IF i > Len(m) THEN Ok
    ELSE Then(ValidateSourceEntry(m[i][1], m[i][2]), ValidateSourceFrom(m, i + 1))

\* _validate_source(source)
_validate_source(semantics) ==
    IF "source" \notin semantics.present \/ semantics.source.k = "none" THEN Ok
    ELSE IF semantics.source.k # "dict" THEN Raise("InvalidFormat", "source")
    ELSE ValidateSourceFrom(semantics.source.m, 1)

\* validate_semantics(schema): what its try block raised; the except
\* clauses log it and the method returns normally
validate_semantics(semantics) ==
    Then(SemCheckRequiredKeys(semantics), _validate_source(semantics))

\* _validate_filters(filters)
_validate_filters(filters) ==
    IF filters.k # "list" THEN Raise("InvalidFormat", "filter")
    ELSE IF \E i \in 1..Len(filters.l) : filters.l[i].k # "str"
    THEN Raise("InvalidFormat", "filter condition")
    ELSE Ok

\* first key of an entry, in its own order, that is not a valid key
RECURSIVE FirstInvalidKey(_, _, _)
FirstInvalidKey(m, valid_keys, i) ==
    IF i > Len(m) THEN Ok
    ELSE IF m[i][1] \notin valid_keys THEN Raise("InvalidKey", m[i][1])
    ELSE FirstInvalidKey(m, valid_keys, i + 1)

\* _validate_attribute_keys (defined by the class, called by nothing)
_validate_attribute_keys(attribute) ==
    FirstInvalidKey(attribute.m, {"name", "desc", "calculation", "filter", "function", "synonym"}, 1)

\* 'key' in entry and not entry[key]
PresentButEmpty(m, key) == Has(m, key) /\ ~Truthy(Get(m, key))

\* _validate_attribute(attr_key, attribute, schema)
_validate_attribute(attr_key, attribute) ==
    IF attribute.k # "dict" THEN Raise("InvalidFormat", attr_key)
    ELSE IF PresentButEmpty(attribute.m, "name") THEN Raise("EmptyValue", "name")
    ELSE IF PresentButEmpty(attribute.m, "desc") THEN Raise("EmptyValue", "desc")
    ELSE IF PresentButEmpty(attribute.m, "calculation") THEN Raise("EmptyValue", "calculation")
    ELSE Then(IF Has(attribute.m, "calculation")
              THEN _validate_calculation(Get(attribute.m, "calculation")) ELSE Ok,
              IF Has(attribute.m, "filter")
              THEN _validate_filters(Get(attribute.m, "filter")) ELSE Ok)

RECURSIVE ValidateAttributesFrom(_, _)
ValidateAttributesFrom(m, i) ==
    IF i > Len(m) THEN Ok
    ELSE Then(_validate_attribute(m[i][1], m[i][2]), ValidateAttributesFrom(m, i + 1))

\* _validate_attributes(attributes, schema)
_validate_attributes(attributes) ==
    IF attributes.k # "dict" THEN Raise("InvalidFormat", "attributes")
    ELSE ValidateAttributesFrom(attributes.m, 1)

\* _validate_metric_keys
_validate_metric_keys(metric) ==
    FirstInvalidKey(metric.m, {"name", "calculation", "function", "desc", "filter", "synonym"}, 1)

\* the guard of the name-or-calculation rule
NameOrCalculationAbsent(m) == ~Has(m, "name") \/ ~Has(m, "calculation")

\* the name-or-calculation rule of _validate_metric: schema is whatever the
\* caller passed, [k, cols]: a str (k = "str") or a schema mapping whose
\* 'columns' keys are cols
NameOrCalculationRule(metric_key, m, schema) ==
    IF NameOrCalculationAbsent(m)
    THEN IF schema.k # "dict" THEN Raise("TypeError", "schema['columns']")
         ELSE IF metric_key \notin schema.cols THEN Raise("MissingKey", "name or calculation")
         ELSE Ok
    ELSE Ok

\* _validate_metric(metric_key, metric, schema)
_validate_metric(metric_key, metric, schema) ==
    IF metric.k # "dict" THEN Raise("InvalidFormat", metric_key)
    ELSE Then(NameOrCalculationRule(metric_key, metric.m, schema),
         IF PresentButEmpty(metric.m, "name") THEN Raise("EmptyValue", "name")
         ELSE IF PresentButEmpty(metric.m, "calculation") THEN Raise("EmptyValue", "calculation")
         ELSE IF Has(metric.m, "function") /\ Get(metric.m, "function").k # "str"
         THEN Raise("EmptyValue", "function")
         ELSE IF ~Has(metric.m, "calculation") THEN Raise("KeyError", "calculation")
         ELSE Then(_validate_calculation(Get(metric.m, "calculation")),
                   _validate_metric_keys(metric)))

RECURSIVE ValidateMetricsFrom(_, _, _)
ValidateMetricsFrom(m, schema, i) ==
    IF i > Len(m) THEN Ok
    ELSE Then(_validate_metric(m[i][1], m[i][2], schema), ValidateMetricsFrom(m, schema, i + 1))

\* _validate_metrics(metrics, schema)
_validate_metrics(metrics, schema) ==
    IF metrics.k # "dict" THEN Raise("InvalidFormat", "metrics")
    ELSE ValidateMetricsFrom(metrics.m, schema, 1)

\* a variant that stops at the first column it misses
RECURSIVE MissingColumnsFirstOnly(_, _, _)
MissingColumnsFirstOnly(referenced, known, i) ==
    IF i > Len(referenced) THEN <<>>
    ELSE IF referenced[i].k = "str" /\ referenced[i].s \in known
    THEN MissingColumnsFirstOnly(referenced, known, i + 1)
    ELSE <<referenced[i]>>

\* missing_columns = [col for col in referenced_columns if col not in schema_columns]
RECURSIVE MissingColumns(_, _, _)
MissingColumns(referenced, known, i) ==
    IF i > Len(referenced) THEN <<>>
    ELSE IF referenced[i].k = "str" /\ referenced[i].s \in known
    THEN MissingColumns(referenced, known, i + 1)
    ELSE <<referenced[i]>> \o MissingColumns(referenced, known, i + 1)

\* validate_referenced_columns(schema_name, schema, referenced_columns)
validate_referenced_columns(schema, referenced_columns) ==
    IF schema.k # "dict" THEN Raise("AttributeError", "get")
    ELSE IF referenced_columns.k \notin {"list", "str"} THEN Raise("TypeError", "referenced_columns")
    ELSE LET schema_columns ==
                 IF "columns" \in schema.present THEN schema.columns
                 ELSE [k |-> "list", m |-> <<>>]
             missing_columns == MissingColumns(referenced_columns.l, Keys(schema_columns.m), 1)
         IN  IF schema_columns.k \notin {"dict", "list"} /\ referenced_columns.l # <<>>
             THEN Raise("TypeError", "schema_columns")
             ELSE IF missing_columns = <<>> THEN Ok
             ELSE IF \E i \in 1..Len(missing_columns) : missing_columns[i].k # "str"
             THEN Raise("TypeError", "join")
             ELSE RaiseCols("MissingKey", "Columns missing in schema",
                            [i \in 1..Len(missing_columns) |-> missing_columns[i].s])

\* a variant that takes the first file whatever the name
ResolveIgnoringName(files, schema, i) == IF i > Len(files) THEN 0 ELSE i

\* next((content for s, content in files if Path(s).stem == schema), None):
\* the index of the first file whose stem is the name, 0 when there is none
RECURSIVE ResolveFrom(_, _, _)
ResolveFrom(files, schema, i) ==
    IF i > Len(files) THEN 0
    ELSE IF Stem(files[i][1]) = <<schema>> THEN i
    ELSE ResolveFrom(files, schema, i + 1)

\* the body of validate's loop for one schema_key, up to validate_semantics
ValidateReference(semantics, files, schema_key, binding) ==
    IF Len(schema_key) < 2 THEN Raise("IndexError", "split")
    ELSE LET schema == schema_key[2]
             found == ResolveFrom(files, schema, 1)
         IN  IF found = 0 THEN Raise("MissingKey", schema)
             ELSE IF binding.k # "dict" THEN Raise("TypeError", "source value")
             ELSE IF ~binding.hasColumns THEN Raise("KeyError", "columns")
             ELSE Then(validate_referenced_columns(files[found][2], binding.columns),
                  Then(_validate_attributes(SemGetOrEmpty(semantics, "attributes")),
                       _validate_metrics(SemGetOrEmpty(semantics, "metrics"),
                                         [k |-> "str", cols |-> {}])))

\* validate's loop from the i-th schema reference on: what it raised, and
\* what each validate_semantics call swallowed on the way
RECURSIVE ValidateReferencesFrom(_, _, _, _)
ValidateReferencesFrom(semantics, files, i, swallowed) ==
    IF i > Len(semantics.source.m) THEN [error |-> Ok, swallowed |-> swallowed]
    ELSE LET r == ValidateReference(semantics, files, semantics.source.m[i][1],
                                    semantics.source.m[i][2])
         IN  IF r.kind # "ok" THEN [error |-> r, swallowed |-> swallowed]
             ELSE ValidateReferencesFrom(semantics, files, i + 1,
                                         Append(swallowed, validate_semantics(semantics)))

\* SemanticsValidator.validate(files); files is [absent, items]
SemValidate(semantics, files) ==
    IF files.absent
    THEN [error |-> Raise("MissingKey", "No schema files initialized yet."), swallowed |-> <<>>]
    ELSE IF "source" \notin semantics.present \/ semantics.source.k = "none"
    THEN [error |-> Raise("MissingKey", "No source specified in semantics."), swallowed |-> <<>>]
    ELSE IF semantics.source.k # "dict"
    THEN [error |-> Raise("AttributeError", "keys"), swallowed |-> <<>>]
    ELSE IF semantics.source.m = <<>>
    THEN [error |-> Raise("MissingKey", "No schema reference found."), swallowed |-> <<>>]
    ELSE ValidateReferencesFrom(semantics, files.items, 1, <<>>)

\* main.validate_semantics: the loop body for one file
SemanticsOutcome(filename, semantics, schema_files) ==
    LET v == SemValidate(semantics, [absent |-> FALSE, items |-> schema_files])
    IN  [file |-> filename, phase |-> "semantics", error |-> v.error,
         log |-> IF v.error.kind = "ok" THEN "semantics is valid"
                 ELSE "Semantics validation failed",
         swallowed |-> v.swallowed]

(***************************************************************************)
(* SchemaValidator.  A schema document is a record                         *)
(*   [k, present, table_info, columns]                                     *)
(* present: the top-level keys it has; table_info: [k, l] with l the       *)
(* table entries [k, present, table, joins], joins being [k, l] with l the *)
(* conditions [k, c] (c the characters of a string condition); columns:    *)
(* [k, m] with m the pairs <<column id, [k, m]>>, a column's m being its   *)
(* <<key, value>> pairs.                                                   *)
(***************************************************************************)
\* the characters of the column identifiers the model uses
IdChars(column_id) ==
    CASE column_id = "order_id" -> <<"o","r","d","e","r","_","i","d">>
      [] column_id = "qty" -> <<"q","t","y">>
      [] column_id = "_x9" -> <<"_","x","9">>
      [] column_id = "1bad" -> <<"1","b","a","d">>
      [] column_id = "or-der" -> <<"o","r","-","d","e","r">>
      [] column_id = "amount" -> <<"a","m","o","u","n","t">>
      [] OTHER -> <<>>

\* a variant that looks for the keys in the opposite order
SchemaCheckKeysReversed(schema) ==
    LET absent == FirstAbsent(<<"columns", "table_info", "subject_area">>,
                              IF schema.k = "dict" THEN schema.present ELSE {}, 1)
    IN  IF absent # "" THEN Raise("MissingKey", absent) ELSE Ok

\* _check_required_keys
SchemaCheckRequiredKeys(schema) ==
    LET absent == FirstAbsent(<<"subject_area", "table_info", "columns">>,
                              IF schema.k = "dict" THEN schema.present ELSE {}, 1)
    IN  IF absent # "" THEN Raise("MissingKey", absent) ELSE Ok

\* re.match(r'^[\w\.]+ = [\w\.]+$', condition)
JoinSide(c, from, to) == from <= to /\ \A i \in from..to : IsWord(c[i]) \/ c[i] = "."
JoinConditionMatches(c) ==
    \E e \in {Len(c)} \cup {n \in {Len(c) - 1} : n >= 1 /\ c[Len(c)] = "\n"} :
        \E i \in 2..(e - 3) :
            /\ c[i] = " " /\ c[i + 1] = "=" /\ c[i + 2] = " "
            /\ JoinSide(c, 1, i - 1)
            /\ JoinSide(c, i + 3, e)

\* _validate_joins(joins, table_name)
_validate_joins(joins) ==
    IF joins.k # "list" THEN Raise("InvalidFormat", "joins")
    ELSE IF Len(joins.l) = 0 THEN Ok
    ELSE IF \E i \in 1..Len(joins.l) :
                joins.l[i].k # "str" \/ ~JoinConditionMatches(joins.l[i].c)
    THEN Raise("InvalidFormat", "join condition")
    ELSE Ok

\* _validate_table_entry(table)
_validate_table_entry(table) ==
    IF table.k # "dict" THEN Raise("InvalidFormat", "table_info entry")
    ELSE IF "table" \notin table.present THEN Raise("MissingKey", "table")
    ELSE IF table.table.k = "none" THEN Raise("EmptyValue", "table")
    ELSE IF "joins" \notin table.present THEN Raise("MissingKey", "joins")
    ELSE IF table.joins.k = "list" /\ \E i \in 1..Len(table.joins.l) : table.joins.l[i].k = "dict"
    THEN Raise("InvalidFormat", "joins")
    ELSE _validate_joins(table.joins)

RECURSIVE ValidateTableEntriesFrom(_, _)
ValidateTableEntriesFrom(l, i) ==
    IF i > Len(l) THEN Ok
    ELSE Then(_validate_table_entry(l[i]), ValidateTableEntriesFrom(l, i + 1))

\* _validate_table_info(table_info)
_validate_table_info(table_info) ==
    IF table_info.k # "list" THEN Raise("InvalidFormat", "table_info")
    ELSE ValidateTableEntriesFrom(table_info.l, 1)

\* validate_table_reference(table, tables_in_schema)
RECURSIVE FirstDanglingTable(_, _, _)
FirstDanglingTable(l, tables_in_schema, i) ==
    IF i > Len(l) THEN Ok
    ELSE IF l[i] \notin tables_in_schema THEN Raise("MissingKey", l[i].s)
    ELSE FirstDanglingTable(l, tables_in_schema, i + 1)

validate_table_reference(table, tables_in_schema) ==
    IF table.k = "str"
    THEN IF Item("str", table.s) \notin tables_in_schema THEN Raise("MissingKey", table.s) ELSE Ok
    ELSE IF table.k = "list" THEN FirstDanglingTable(table.l, tables_in_schema, 1)
    ELSE Raise("InvalidFormat", "table")

\* _check_column_format: re.match(r'^[A-Za-z_][A-Za-z0-9_]*$', column_id)
ColumnIdMatches(c) ==
    \E e \in {Len(c)} \cup {n \in {Len(c) - 1} : n >= 1 /\ c[Len(c)] = "\n"} :
        /\ e >= 1
        /\ c[1] \notin Digits /\ IsWord(c[1])
        /\ \A i \in 2..e : IsWord(c[i])
_check_column_format(column_id) ==
    IF ~ColumnIdMatches(IdChars(column_id)) THEN Raise("InvalidFormat", column_id) ELSE Ok

\* _check_required_column_keys
RECURSIVE FirstMissingOrFalsy(_, _, _)
FirstMissingOrFalsy(m, required_keys, i) ==
    IF i > Len(required_keys) THEN Ok
    ELSE IF ~Has(m, required_keys[i]) \/ ~Truthy(Get(m, required_keys[i]))
    THEN Raise("EmptyValue", required_keys[i])
    ELSE FirstMissingOrFalsy(m, required_keys, i + 1)
_check_required_column_keys(column) ==
    FirstMissingOrFalsy(column.m, <<"name", "type", "column", "desc">>, 1)

\* _check_indentation: expected_keys, and its two loops
expected_keys == <<"name", "type", "column", "desc", "primary_key">>
RECURSIVE FirstNoneOrBlank(_, _)
FirstNoneOrBlank(m, i) ==
    IF i > Len(expected_keys) THEN Ok
    ELSE IF /\ Has(m, expected_keys[i])
            /\ (Get(m, expected_keys[i]).k = "none" \/ BlankStr(Get(m, expected_keys[i])))
    THEN Raise("EmptyValue", expected_keys[i])
    ELSE FirstNoneOrBlank(m, i + 1)
_check_indentation(column) ==
    Then(FirstInvalidKey(column.m, Range(expected_keys), 1), FirstNoneOrBlank(column.m, 1))

\* _validate_column(column_id, column, column_ids, tables_in_schema)
_validate_column(column_id, column, column_ids, tables_in_schema) ==
    IF column.k # "dict" THEN Raise("InvalidFormat", column_id)
    ELSE IF \E i \in 1..Len(column.m) : column.m[i][2].k = "dict"
    THEN Raise("InvalidFormat", column_id)
    ELSE IF column_id \in column_ids THEN Raise("InvalidKey", column_id)
    ELSE Then(_check_column_format(column_id),
         Then(_check_required_column_keys(column),
         Then(_check_indentation(column),
              IF Has(column.m, "primary_key") /\ Get(column.m, "primary_key").k # "bool"
              THEN Raise("InvalidFormat", "primary_key")
              ELSE IF Has(column.m, "table")
              THEN validate_table_reference(Get(column.m, "table"), tables_in_schema)
              ELSE Ok)))

RECURSIVE ValidateColumnsFrom(_, _, _, _)
ValidateColumnsFrom(m, column_ids, tables_in_schema, i) ==
    IF i > Len(m) THEN Ok
    ELSE IF m[i][1] \in column_ids THEN Raise("InvalidKey", m[i][1])
    ELSE Then(_validate_column(m[i][1], m[i][2], column_ids, tables_in_schema),
              ValidateColumnsFrom(m, column_ids \cup {m[i][1]}, tables_in_schema, i + 1))

\* _validate_columns(columns)
_validate_columns(schema) ==
    IF schema.columns.k # "dict" THEN Raise("InvalidFormat", "columns")
    ELSE IF \E i \in 1..Len(schema.table_info.l) : schema.table_info.l[i].table.k \in {"list", "dict"}
    THEN Raise("TypeError", "unhashable table")
    ELSE ValidateColumnsFrom(schema.columns.m, {},
             {Item(schema.table_info.l[i].table.k, schema.table_info.l[i].table.s) :
                  i \in 1..Len(schema.table_info.l)}, 1)

\* the try block of SchemaValidator.validate
SchemaChecks(schema) ==
    IF schema.k = "none" THEN Raise("TypeError", "schema")
    ELSE Then(SchemaCheckRequiredKeys(schema),
         Then(_validate_table_info(schema.table_info), _validate_columns(schema)))

RecognizedKinds == {"MissingKey", "EmptyValue", "InvalidFormat", "InvalidKey"}

\* a variant of the except clauses without the final `except Exception`
CaughtByRecognizedOnly(r) ==
    IF r.kind = "ok" THEN "none"
    ELSE IF r.kind \in RecognizedKinds THEN "recognized"
    ELSE "uncaught"

\* the except clauses of SchemaValidator.validate: which one takes what the
\* try block raised ("none" when it raised nothing)
CaughtBy(r) ==
    IF r.kind = "ok" THEN "none"
    ELSE IF r.kind \in RecognizedKinds THEN "recognized"
    ELSE "Exception"

\* SchemaValidator.validate inside main.validate_schemas: what is logged,
\* and what leaves validate for main's own except clause
SchemaOutcome(filename, schema) ==
    LET r == SchemaChecks(schema)
        clause == CaughtBy(r)
    IN  [file |-> filename, phase |-> "schema", error |-> r,
         log |-> CASE clause = "none" -> "validation passed"
                   [] clause = "recognized" -> "Validation Error"
                   [] clause = "Exception" -> "unexpected error"
                   [] OTHER -> "Schema validation failed",
         propagated |-> IF clause = "uncaught" THEN r ELSE Ok,
         swallowed |-> <<>>]

(***************************************************************************)
(* The documents the model draws.  Each universe is a base document (the   *)
(* spec's example scenarios 1 and 3) varied in at most MaxDeviations of    *)
(* its parts, every part ranging over well-formed and malformed values.    *)
(***************************************************************************)
\* the part itself counts as a deviation unless it is the base
Pick(choices, base, budget) == IF budget > 0 THEN choices ELSE {base}
Dev(x, base) == IF x = base THEN 0 ELSE 1

GoodCalc == <<"S","U","M","(","x",")">>
CountCalc == <<"c","o","u","n","t","(","o","r","d","e","r","_","i","d",")">>
DanglingCalc == <<"C","O","U","N","T","(","x",")"," ","A","N","D">>
RejectedCalc == <<"x",",","x">>

\* ---- schema documents ----
OkColumnPairs ==
    << <<"name", StrV("Order Id")>>, <<"type", StrV("int")>>,
       <<"column", StrV("order_id")>>, <<"desc", StrV("id")>> >>
BaseColumn == [k |-> "dict", m |-> OkColumnPairs]
Condition(chars) == [k |-> "str", c |-> chars]
TableEntry(name, joins) ==
    [k |-> "dict", present |-> {"table", "joins"}, table |-> name,
     joins |-> [k |-> "list", l |-> joins]]
BaseTableInfo == [k |-> "list", l |-> <<TableEntry(StrV("orders"), <<>>)>>]
SchemaDoc(present, table_info, columns) ==
    [k |-> "dict", present |-> present, table_info |-> table_info, columns |-> columns]
TopKeys == {"subject_area", "table_info", "columns"}
ColumnsOf(ids) == [k |-> "dict", m |-> [i \in 1..Len(ids) |-> <<ids[i], BaseColumn>>]]
Absent == [k |-> "absent", s |-> "", l |-> <<>>]
IsPresent(pair) == pair[2].k # "absent"
\* a column mapping from the value (or Absent) of each key, in file order;
\* front is an unexpected key written before the others, back one after
ColumnOf(front, name, type, column, desc, table, primary_key, back) ==
    [k |-> "dict",
     m |-> SelectSeq(<< <<"label", front>>, <<"name", name>>, <<"type", type>>,
                        <<"column", column>>, <<"desc", desc>>, <<"table", table>>,
                        <<"primary_key", primary_key>>, <<"comment", back>> >>, IsPresent)]
\* the column of scenario 1
Scenario1Column ==
    ColumnOf(Absent, StrV("Order Id"), StrV("int"), StrV("order_id"), StrV("id"),
             StrV("orders"), BoolV("True"), Absent)
\* scenario 1, and two more schemas
OrdersSchema ==
    SchemaDoc(TopKeys, BaseTableInfo, [k |-> "dict", m |-> << <<"order_id", Scenario1Column>> >>])
SalesSchema == SchemaDoc(TopKeys, BaseTableInfo, ColumnsOf(<<"order_id", "qty">>))
CustomersSchema == SchemaDoc(TopKeys, BaseTableInfo, ColumnsOf(<<"_x9">>))

\* ---- semantics documents ----
Binding(cols) ==
    [k |-> "dict", hasColumns |-> TRUE,
     columns |-> [k |-> "list", l |-> [i \in 1..Len(cols) |-> Item("str", cols[i])]]]
BindingValues ==
    { Binding(<<"order_id">>), Binding(<<>>), Binding(<<"zz">>), Binding(<<"zz", "order_id", "yy">>),
      [k |-> "dict", hasColumns |-> FALSE, columns |-> [k |-> "none", l |-> <<>>]],
      [k |-> "str", hasColumns |-> FALSE, columns |-> [k |-> "none", l |-> <<>>]],
      [k |-> "dict", hasColumns |-> TRUE, columns |-> [k |-> "none", l |-> <<>>]],
      [k |-> "dict", hasColumns |-> TRUE,
       columns |-> [k |-> "str", l |-> <<Item("str", "q"), Item("str", "t")>>]],
      [k |-> "dict", hasColumns |-> TRUE,
       columns |-> [k |-> "list", l |-> <<Item("str", "order_id"), Item("int", "7")>>]] }
SourceKeys ==
    { <<"schema", "orders">>, <<"schema", "customers">>, <<"schema", "ghost">>,
      <<"foo", "orders">>, <<"orders">>, <<"schema", "orders", "v2">>, <<"schema", "">> }
BaseSource == [k |-> "dict", m |-> << <<<<"schema", "orders">>, Binding(<<"order_id">>)>> >>]
SourceChoices ==
    { [k |-> "none", m |-> <<>>], [k |-> "list", m |-> <<>>], [k |-> "dict", m |-> <<>>] }
    \cup { [k |-> "dict", m |-> << <<key, b>> >>] : key \in SourceKeys, b \in BindingValues }
    \cup { [k |-> "dict", m |-> << <<k1, b1>>, <<k2, b2>> >>] :
             k1 \in {<<"schema", "orders">>, <<"schema", "ghost">>, <<"schema", "customers">>},
             k2 \in {<<"schema", "orders">>, <<"schema", "ghost">>, <<"foo", "orders">>},
             b1 \in {Binding(<<"order_id">>), Binding(<<"zz">>)},
             b2 \in {Binding(<<"order_id">>), Binding(<<"_x9">>)} }

Entry(pairs) == [k |-> "dict", m |-> pairs]
AttributeEntries ==
    { Entry(<< <<"name", StrV("Qty")>>, <<"desc", StrV("d")>>, <<"calculation", ChStr(GoodCalc)>>,
               <<"filter", ListV(<<Item("str", "qty > 0")>>)>>, <<"function", StrV("f")>>,
               <<"synonym", StrV("s")>> >>),
      Entry(<<>>),
      Entry(<< <<"name", StrV("")>> >>),
      Entry(<< <<"name", StrV("Qty")>>, <<"desc", NoneV>> >>),
      Entry(<< <<"calculation", ChStr(<<>>)>> >>),
      Entry(<< <<"calculation", ChStr(RejectedCalc)>> >>),
      Entry(<< <<"calculation", IntV("5")>> >>),
      Entry(<< <<"name", StrV("Qty")>>, <<"filter", StrV("qty > 0")>> >>),
      Entry(<< <<"name", StrV("Qty")>>, <<"filter", ListV(<<Item("int", "1")>>)>> >>),
      Entry(<< <<"name", StrV("Qty")>>, <<"bogus", StrV("b")>> >>),
      Entry(<< <<"bogus", StrV("b")>>, <<"name", StrV("Qty")>>, <<"calculation", ChStr(GoodCalc)>> >>),
      [k |-> "str", m |-> <<>>] }
AttributeKeys == {"qty_attr"}
AttributesChoices ==
    { [k |-> "none", m |-> <<>>], [k |-> "list", m |-> <<>>], [k |-> "dict", m |-> <<>>] }
    \cup { [k |-> "dict", m |-> << <<key, a>> >>] : key \in AttributeKeys, a \in AttributeEntries }

BaseMetric == Entry(<< <<"name", StrV("Total Orders")>>, <<"calculation", ChStr(CountCalc)>> >>)
MetricEntries ==
    { BaseMetric,
      Entry(<< <<"calculation", ChStr(GoodCalc)>>, <<"name", StrV("Total")>>,
               <<"function", StrV("f")>>, <<"desc", StrV("d")>>,
               <<"filter", StrV("x")>>, <<"synonym", StrV("s")>> >>),
      Entry(<<>>),
      Entry(<< <<"desc", StrV("d")>> >>),
      Entry(<< <<"name", StrV("Total")>> >>),
      Entry(<< <<"calculation", ChStr(GoodCalc)>> >>),
      Entry(<< <<"name", StrV("")>>, <<"calculation", ChStr(GoodCalc)>> >>),
      Entry(<< <<"name", StrV("Total")>>, <<"calculation", ChStr(<<>>)>> >>),
      Entry(<< <<"name", StrV("Total")>>, <<"calculation", ChStr(RejectedCalc)>> >>),
      Entry(<< <<"name", StrV("Total")>>, <<"calculation", ChStr(DanglingCalc)>> >>),
      Entry(<< <<"name", StrV("Total")>>, <<"calculation", IntV("5")>> >>),
      Entry(<< <<"name", StrV("Total")>>, <<"calculation", ChStr(GoodCalc)>>,
               <<"function", IntV("5")>> >>),
      Entry(<< <<"name", StrV("Total")>>, <<"calculation", ChStr(GoodCalc)>>,
               <<"bogus", StrV("b")>> >>),
      Entry(<< <<"bogus", StrV("b")>>, <<"name", StrV("Total")>>,
               <<"calculation", ChStr(RejectedCalc)>> >>),
      [k |-> "str", m |-> <<>>] }
MetricKeys == {"total_orders", "order_id"}
BaseMetrics == [k |-> "dict", m |-> << <<"total_orders", BaseMetric>> >>]
MetricsChoices ==
    { [k |-> "none", m |-> <<>>], [k |-> "list", m |-> <<>>], [k |-> "dict", m |-> <<>>] }
    \cup { [k |-> "dict", m |-> << <<key, e>> >>] : key \in MetricKeys, e \in MetricEntries }
    \cup { [k |-> "dict", m |-> << <<"total_orders", e1>>, <<"order_id", e2>> >>] :
             e1 \in {BaseMetric, Entry(<< <<"name", StrV("")>>, <<"calculation", ChStr(GoodCalc)>> >>)},
             e2 \in {BaseMetric, Entry(<< <<"name", StrV("Total")>>, <<"calculation", ChStr(GoodCalc)>>,
                                          <<"bogus", StrV("b")>> >>)} }

SemanticsKeys == {"folder", "type", "source", "attributes", "metrics"}
BasePresent == {"folder", "type", "source", "metrics"}
SemDoc(present, source, attributes, metrics) ==
    [present |-> present, source |-> source, attributes |-> attributes, metrics |-> metrics]
NoAttributes == [k |-> "dict", m |-> <<>>]
\* scenario 3
BaseSemantics == SemDoc(BasePresent, BaseSource, NoAttributes, BaseMetrics)

\* the top-level keys scenario 3 has; adding `attributes` is no deviation
DevPresent(pr) == IF pr \in {BasePresent, BasePresent \cup {"attributes"}} THEN 0 ELSE 1

OrdersFile == << <<"orders", "yml">>, OrdersSchema >>
CustomersFile == << <<"customers", "yaml">>, CustomersSchema >>
SchemaCollections ==
    { <<>>, <<OrdersFile>>, <<CustomersFile, OrdersFile>>,
      << <<<<"orders", "v2", "yml">>, OrdersSchema>> >>,
      << <<<<"orders", "yaml">>, CustomersSchema>>, OrdersFile >> }
SemanticsFileName == <<"sales", "yml">>

(***************************************************************************)
(* main.validate_semantics on one semantics file and a schema collection.  *)
(***************************************************************************)
\* one semantics file within MaxDeviations deviations of scenario 3 and its
\* schema collection (a part that is absent keeps a fixed placeholder value)
InitSem ==
    /\ schemas_files \in SchemaCollections
    /\ \E pr \in Pick(SUBSET SemanticsKeys, BasePresent,
                      MaxDeviations - Dev(schemas_files, <<OrdersFile>>)) :
       \E s \in Pick(SourceChoices, BaseSource,
                     MaxDeviations - Dev(schemas_files, <<OrdersFile>>) - DevPresent(pr)) :
       \E a \in Pick(AttributesChoices, NoAttributes,
                     MaxDeviations - Dev(schemas_files, <<OrdersFile>>) - DevPresent(pr)
                                   - Dev(s, BaseSource)) :
       \E m \in Pick(MetricsChoices, BaseMetrics,
                     MaxDeviations - Dev(schemas_files, <<OrdersFile>>) - DevPresent(pr)
                                   - Dev(s, BaseSource) - Dev(a, NoAttributes)) :
          semantics_files =
              << <<SemanticsFileName,
                   SemDoc(pr, IF "source" \in pr THEN s ELSE BaseSource,
                          IF "attributes" \in pr THEN a ELSE NoAttributes,
                          IF "metrics" \in pr THEN m ELSE BaseMetrics)>> >>
    /\ pc = "semantics"
    /\ idx = 1
    /\ outcomes = <<>>
    /\ call = NoneV
    /\ ret = Ok

\* one iteration of the loop of main.validate_semantics
ValidateSemanticsFile ==
    /\ pc = "semantics"
    /\ idx <= Len(semantics_files)
    /\ outcomes' = Append(outcomes, SemanticsOutcome(semantics_files[idx][1],
                                                     semantics_files[idx][2], schemas_files))
    /\ idx' = idx + 1
    /\ UNCHANGED <<schemas_files, semantics_files, pc, call, ret>>

\* the loop of main.validate_semantics is over
SemanticsDone ==
    /\ pc = "semantics"
    /\ idx > Len(semantics_files)
    /\ pc' = "done"
    /\ UNCHANGED <<schemas_files, semantics_files, idx, outcomes, call, ret>>

NextSem == ValidateSemanticsFile \/ SemanticsDone
SpecSem == InitSem /\ [][NextSem]_vars

(***************************************************************************)
(* main.validate_schemas on one schema file.                               *)
(***************************************************************************)
RequiredValueChoices(ok) == {ok, Absent, StrV(""), StrV(" "), NoneV, DictV, IntV("0")}
TableValueChoices ==
    { Absent, StrV("orders"), StrV("ghost"), IntV("5"),
      ListV(<<Item("str", "orders")>>), ListV(<<Item("str", "orders"), Item("str", "ghost")>>) }
PrimaryKeyChoices == {Absent, BoolV("True"), BoolV("False"), StrV("yes"), NoneV}
ExtraChoices == {Absent, StrV("x")}
ColumnIds == {"order_id", "qty", "_x9", "1bad", "or-der"}

JoinGood == <<"o",".","i","d"," ","="," ","c",".","o","_","i","d">>
JoinChoices ==
    { <<>>, <<Condition(JoinGood)>>,
      <<Condition(JoinGood), Condition(<<"a"," ","="," ","b">>)>>,
      <<Condition(<<"a",".",".","b"," ","="," ","c">>)>>,
      <<Condition(<<".","a"," ","="," ","b">>)>>,
      <<Condition(<<"a"," ","="," ","b",".">>)>>,
      <<Condition(<<"."," ","="," ",".">>)>>,
      <<Condition(<<"a","=","b">>)>>,
      <<Condition(<<"a"," ","="," ","b"," ","="," ","c">>)>>,
      <<Condition(<<"a"," ","="," ","b","\n">>)>>,
      <<Condition(<<"a"," ","="," ">>)>>,
      <<Condition(JoinGood), [k |-> "int", c |-> <<>>]>>,
      <<[k |-> "dict", c |-> <<>>]>> }
TableInfoChoices ==
    { [k |-> "list", l |-> <<TableEntry(StrV("orders"), j)>>] : j \in JoinChoices }
    \cup { [k |-> "list", l |-> <<>>], [k |-> "dict", l |-> <<>>], [k |-> "none", l |-> <<>>],
           [k |-> "list", l |-> <<TableEntry(StrV("customers"), <<>>), TableEntry(StrV("orders"), <<>>)>>],
           [k |-> "list", l |-> <<TableEntry(StrV("orders"), <<>>),
                                  TableEntry(StrV("ghost"), <<Condition(<<"a","=","b">>)>>)>>],
           [k |-> "list", l |-> <<[TableEntry(StrV("orders"), <<>>) EXCEPT !.k = "str"]>>],
           [k |-> "list", l |-> <<[TableEntry(StrV("orders"), <<>>) EXCEPT !.present = {"joins"}]>>],
           [k |-> "list", l |-> <<[TableEntry(StrV("orders"), <<>>) EXCEPT !.present = {"table"}]>>],
           [k |-> "list", l |-> <<[TableEntry(StrV("orders"), <<>>) EXCEPT !.present = {}]>>],
           [k |-> "list", l |-> <<[TableEntry(StrV("orders"), <<>>) EXCEPT !.joins.k = "str"]>>],
           [k |-> "list", l |-> <<TableEntry(NoneV, <<>>)>>],
           [k |-> "list", l |-> <<TableEntry(IntV("5"), <<>>)>>],
           [k |-> "list", l |-> <<TableEntry(ListV(<<Item("str", "orders")>>), <<>>)>>] }

\* a second column, after the first
SecondColumnChoices ==
    { Absent, StrV("ok"), StrV("table"), StrV("ghost"), StrV("extra"), StrV("empty name") }
SecondColumn(choice) ==
    CASE choice.s = "ok" -> BaseColumn
      [] choice.s = "table" -> Scenario1Column
      [] choice.s = "ghost" ->
            ColumnOf(Absent, StrV("Qty"), StrV("int"), StrV("qty"), StrV("q"), StrV("ghost"), Absent, Absent)
      [] choice.s = "extra" ->
            ColumnOf(Absent, StrV("Qty"), StrV("int"), StrV("qty"), StrV("q"), Absent, Absent, StrV("x"))
      [] OTHER ->
            ColumnOf(Absent, StrV(""), StrV("int"), StrV("qty"), StrV("q"), Absent, Absent, Absent)
ColumnsKinds == {"dict", "list", "none"}
SchemaFileName == <<"orders", "yml">>

\* one schema file within MaxDeviations deviations of scenario 1
InitSchema ==
    /\ \E pr \in Pick(SUBSET TopKeys, TopKeys, MaxDeviations) :
       \E ti \in Pick(TableInfoChoices, BaseTableInfo, MaxDeviations - Dev(pr, TopKeys)) :
       \E ck \in Pick(ColumnsKinds, "dict", MaxDeviations - Dev(pr, TopKeys) - Dev(ti, BaseTableInfo)) :
       \E id \in Pick(ColumnIds, "order_id", MaxDeviations - Dev(pr, TopKeys) - Dev(ti, BaseTableInfo)
                                                - Dev(ck, "dict")) :
       \E fr \in Pick(ExtraChoices, Absent, MaxDeviations - Dev(pr, TopKeys) - Dev(ti, BaseTableInfo)
                                                - Dev(ck, "dict") - Dev(id, "order_id")) :
       \E nm \in Pick(RequiredValueChoices(StrV("Order Id")), StrV("Order Id"),
                      MaxDeviations - Dev(pr, TopKeys) - Dev(ti, BaseTableInfo)
                          - Dev(ck, "dict") - Dev(id, "order_id") - Dev(fr, Absent)) :
       \E ds \in Pick(RequiredValueChoices(StrV("id")), StrV("id"),
                      MaxDeviations - Dev(pr, TopKeys) - Dev(ti, BaseTableInfo)
                          - Dev(ck, "dict") - Dev(id, "order_id") - Dev(fr, Absent)
                          - Dev(nm, StrV("Order Id"))) :
       \E tb \in Pick(TableValueChoices, StrV("orders"),
                      MaxDeviations - Dev(pr, TopKeys) - Dev(ti, BaseTableInfo)
                          - Dev(ck, "dict") - Dev(id, "order_id") - Dev(fr, Absent)
                          - Dev(nm, StrV("Order Id")) - Dev(ds, StrV("id"))) :
       \E pk \in Pick(PrimaryKeyChoices, BoolV("True"),
                      MaxDeviations - Dev(pr, TopKeys) - Dev(ti, BaseTableInfo)
                          - Dev(ck, "dict") - Dev(id, "order_id") - Dev(fr, Absent)
                          - Dev(nm, StrV("Order Id")) - Dev(ds, StrV("id"))
                          - Dev(tb, StrV("orders"))) :
       \E bk \in Pick(ExtraChoices, Absent,
                      MaxDeviations - Dev(pr, TopKeys) - Dev(ti, BaseTableInfo)
                          - Dev(ck, "dict") - Dev(id, "order_id") - Dev(fr, Absent)
                          - Dev(nm, StrV("Order Id")) - Dev(ds, StrV("id"))
                          - Dev(tb, StrV("orders")) - Dev(pk, BoolV("True"))) :
       \E c2 \in Pick(SecondColumnChoices, Absent,
                      MaxDeviations - Dev(pr, TopKeys) - Dev(ti, BaseTableInfo)
                          - Dev(ck, "dict") - Dev(id, "order_id") - Dev(fr, Absent)
                          - Dev(nm, StrV("Order Id")) - Dev(ds, StrV("id"))
                          - Dev(tb, StrV("orders")) - Dev(pk, BoolV("True")) - Dev(bk, Absent)) :
          schemas_files =
              << <<SchemaFileName,
                   SchemaDoc(pr, ti,
                       [k |-> ck,
                        m |-> IF ck # "dict" THEN <<>>
                              ELSE << <<id, ColumnOf(fr, nm, StrV("int"), StrV("order_id"), ds,
                                                     tb, pk, bk)>> >>
                                   \o (IF c2 = Absent THEN <<>>
                                       ELSE << <<"amount", SecondColumn(c2)>> >>)])>> >>
    /\ semantics_files = <<>>
    /\ pc = "schemas"
    /\ idx = 1
    /\ outcomes = <<>>
    /\ call = NoneV
    /\ ret = Ok

\* a variant in which an unexpected error of one schema ends the loop
ValidateSchemaFileAbortsOnError ==
    /\ pc = "schemas"
    /\ idx <= Len(schemas_files)
    /\ outcomes' = Append(outcomes, SchemaOutcome(schemas_files[idx][1], schemas_files[idx][2]))
    /\ idx' = IF outcomes'[Len(outcomes')].log = "unexpected error"
              THEN Len(schemas_files) + 1 ELSE idx + 1
    /\ UNCHANGED <<schemas_files, semantics_files, pc, call, ret>>

\* one iteration of the loop of main.validate_schemas
ValidateSchemaFile ==
    /\ pc = "schemas"
    /\ idx <= Len(schemas_files)
    /\ outcomes' = Append(outcomes, SchemaOutcome(schemas_files[idx][1], schemas_files[idx][2]))
    /\ idx' = idx + 1
    /\ UNCHANGED <<schemas_files, semantics_files, pc, call, ret>>

\* the loop of main.validate_schemas is over
SchemasDone ==
    /\ pc = "schemas"
    /\ idx > Len(schemas_files)
    /\ pc' = "schemas returned"
    /\ UNCHANGED <<schemas_files, semantics_files, idx, outcomes, call, ret>>

NextSchema == ValidateSchemaFile \/ SchemasDone
SpecSchema == InitSchema /\ [][NextSchema]_vars

(***************************************************************************)
(* The calculation grammar on its own: _validate_calculation, and          *)
(* _validate_metric on a metric that carries the calculation, for every    *)
(* string of at most MaxTokens tokens.                                     *)
(***************************************************************************)
CalcTokens ==
    { <<"S","U","M">>, <<"m","a","x">>, <<"F","O","O","B","A","R">>, <<"x">>,
      <<"(">>, <<")">>, <<" ">>, <<"A","N","D">>, <<"=">>, <<",">> }
RECURSIVE Flatten(_)
Flatten(ts) == IF ts = <<>> THEN <<>> ELSE Head(ts) \o Flatten(Tail(ts))

InitCalc ==
    /\ \E n \in 0..MaxTokens : \E ts \in [1..n -> CalcTokens] : call = ChStr(Flatten(ts))
    /\ ret = [calculation |-> Ok, metric |-> Ok]
    /\ pc = "call"
    /\ schemas_files = <<>>
    /\ semantics_files = <<>>
    /\ idx = 1
    /\ outcomes = <<>>

\* _validate_calculation(call), and _validate_metric as validate calls it
\* (its schema argument is the schema name) on {name, calculation: call}
CallValidateCalculation ==
    /\ pc = "call"
    /\ ret' = [calculation |-> _validate_calculation(call),
               metric |-> _validate_metric("total_orders",
                              Entry(<< <<"name", StrV("Total Orders")>>, <<"calculation", call>> >>),
                              [k |-> "str", cols |-> {}])]
    /\ pc' = "done"
    /\ UNCHANGED <<schemas_files, semantics_files, idx, outcomes, call>>

NextCalc == CallValidateCalculation
SpecCalc == InitCalc /\ [][NextCalc]_vars

(***************************************************************************)
(* validate_referenced_columns on its own: a binding of at most MaxRefs    *)
(* columns against a resolved schema.                                      *)
(***************************************************************************)
ReferencedItems ==
    { Item("str", "order_id"), Item("str", "qty"), Item("str", "zz"), Item("str", "yy"),
      Item("int", "7") }
ResolvedSchemas ==
    { OrdersSchema, SalesSchema, CustomersSchema,
      SchemaDoc(TopKeys, BaseTableInfo, [k |-> "dict", m |-> <<>>]),
      SchemaDoc({"subject_area", "table_info"}, BaseTableInfo, [k |-> "dict", m |-> <<>>]),
      SchemaDoc(TopKeys, BaseTableInfo, [k |-> "none", m |-> <<>>]) }

InitRefs ==
    /\ \E schema \in ResolvedSchemas :
       \E n \in 0..MaxRefs : \E refs \in [1..n -> ReferencedItems] :
          call = [schema |-> schema, referenced_columns |-> [k |-> "list", l |-> refs]]
    /\ ret = Ok
    /\ pc = "call"
    /\ schemas_files = <<>>
    /\ semantics_files = <<>>
    /\ idx = 1
    /\ outcomes = <<>>

CallValidateReferencedColumns ==
    /\ pc = "call"
    /\ ret' = validate_referenced_columns(call.schema, call.referenced_columns)
    /\ pc' = "done"
    /\ UNCHANGED <<schemas_files, semantics_files, idx, outcomes, call>>

NextRefs == CallValidateReferencedColumns
SpecRefs == InitRefs /\ [][NextRefs]_vars

(***************************************************************************)
(* Properties of the calculation grammar (under SpecCalc).                 *)
(***************************************************************************)
\* the parentheses of a string are balanced
RECURSIVE ParenDepthOk(_, _, _)
ParenDepthOk(c, i, depth) ==
    IF i > Len(c) THEN depth = 0
    ELSE IF c[i] = "(" THEN ParenDepthOk(c, i + 1, depth + 1)
    ELSE IF c[i] = ")" THEN depth > 0 /\ ParenDepthOk(c, i + 1, depth - 1)
    ELSE ParenDepthOk(c, i + 1, depth)
Balanced(c) == ParenDepthOk(c, 1, 0)

UpperText(c) == [i \in 1..Len(c) |-> Upper(c[i])]
\* some "(" is applied to a name (the whole word before it, blanks skipped)
\* that is neither a supported function nor a logical connective
AppliesUnsupportedFunction(c) ==
    \E open \in 1..Len(c) : \E from \in 1..(open - 1) : \E to \in from..(open - 1) :
        /\ c[open] = "("
        /\ \A i \in (to + 1)..(open - 1) : IsSpace(c[i])
        /\ \A i \in from..to : IsWord(c[i])
        /\ from = 1 \/ ~IsWord(c[from - 1])
        /\ c[from] \notin Digits
        /\ UpperText(SubSeq(c, from, to)) \notin Range(supported_functions) \cup Range(logical_operators)

\* exactly one supported function applied to a parenthesized basic expression
SupportedCallText(c) ==
    \E f \in Range(supported_functions) : \E open \in (Len(f) + 1)..(Len(c) - 2) :
        /\ UpperText(SubSeq(c, 1, Len(f))) = f
        /\ \A i \in (Len(f) + 1)..(open - 1) : IsSpace(c[i])
        /\ c[open] = "("
        /\ c[Len(c)] = ")"
        /\ \A i \in (open + 1)..(Len(c) - 1) : BasicChar(c[i])

\* the string ends (blanks aside) in AND, OR or NOT as a word of its own,
\* with something before it
EndsInConnective(c) ==
    \E op \in Range(logical_operators) : \E from \in 2..Len(c) :
        /\ from + Len(op) - 1 <= Len(c)
        /\ UpperText(SubSeq(c, from, from + Len(op) - 1)) = op
        /\ \A i \in (from + Len(op))..Len(c) : IsSpace(c[i])
        /\ ~IsWord(c[from - 1])
        /\ \E i \in 1..(from - 1) : ~IsSpace(c[i])

\* C5: the grammar check raises InvalidFormat for every string with
\* unbalanced parentheses and for every string applying a function outside
\* the supported vocabulary, and accepts every (balanced) string that is one
\* supported function applied to a parenthesized basic expression.
C5_GrammarRejectsUnbalancedAndUnsupported ==
    pc = "done" =>
        /\ (~Balanced(Chars(call)) \/ AppliesUnsupportedFunction(Chars(call)))
               => ret.calculation.kind = "InvalidFormat"
        /\ (SupportedCallText(Chars(call)) /\ Balanced(Chars(call)))
               => ret.calculation = Ok

\* C6: a metric whose calculation ends in a logical connective with no term
\* after it is rejected with InvalidFormat.
C6_DanglingConnectiveRejected ==
    (pc = "done" /\ EndsInConnective(Chars(call))) => ret.metric.kind = "InvalidFormat"

(***************************************************************************)
(* Properties of validate_referenced_columns (under SpecRefs).             *)
(***************************************************************************)
\* the binding lists column names, against a schema with a columns mapping
NamesAgainstMapping ==
    /\ call.schema.k = "dict"
    /\ "columns" \in call.schema.present
    /\ call.schema.columns.k = "dict"
    /\ \A i \in 1..Len(call.referenced_columns.l) : call.referenced_columns.l[i].k = "str"
ReferencedNames == [i \in 1..Len(call.referenced_columns.l) |-> call.referenced_columns.l[i].s]
NotInSchema(name) == \A i \in 1..Len(call.schema.columns.m) : call.schema.columns.m[i][1] # name

\* C8: when the binding lists columns that are not keys of the resolved
\* schema's columns, one MissingKey is raised whose message lists every
\* missing column, in binding order, and no column that exists.
C8_MissingColumnsBatched ==
    (pc = "done" /\ NamesAgainstMapping /\ \E i \in 1..Len(ReferencedNames) : NotInSchema(ReferencedNames[i]))
        => ret = RaiseCols("MissingKey", "Columns missing in schema",
                           SelectSeq(ReferencedNames, NotInSchema))
\* a binding with two missing columns around one that exists
C8_Witness ==
    /\ pc = "done"
    /\ NamesAgainstMapping
    /\ Len(ReferencedNames) = 3
    /\ NotInSchema(ReferencedNames[1]) /\ ~NotInSchema(ReferencedNames[2]) /\ NotInSchema(ReferencedNames[3])
    /\ ret.kind = "MissingKey" /\ Len(ret.cols) = 2

(***************************************************************************)
(* Properties of SemanticsValidator.validate as main.validate_semantics    *)
(* runs it (under SpecSem).  The well-formedness predicates below state    *)
(* the documents' shape on their own, not through the validator.           *)
(***************************************************************************)
SemUnderTest == semantics_files[1][2]
SemValidated == Len(outcomes) = 1
SemOutcome == outcomes[1]

\* the file <name>.<extension> is loaded
Loaded(name) == \E i \in 1..Len(schemas_files) : schemas_files[i][1] \in {<<name, "yml">>, <<name, "yaml">>}
\* the first loaded file <name>.<extension>
LoadedSchema(name) ==
    schemas_files[CHOOSE i \in 1..Len(schemas_files) :
                     /\ schemas_files[i][1] \in {<<name, "yml">>, <<name, "yaml">>}
                     /\ \A j \in 1..(i - 1) : schemas_files[j][1] \notin {<<name, "yml">>, <<name, "yaml">>}][2]
\* a source key of the form schema.<name>
KeyMatches(key) == Len(key) = 2 /\ key[1] = "schema" /\ key[2] \notin NonWordSegments
\* a source key that names a loaded schema
KeyResolves(key) == Len(key) >= 2 /\ Loaded(key[2])
\* a binding whose columns are a list of names, all of them columns of the schema
ColumnsExist(binding, schema) ==
    /\ binding.k = "dict" /\ binding.hasColumns /\ binding.columns.k = "list"
    /\ schema.k = "dict" /\ "columns" \in schema.present /\ schema.columns.k = "dict"
    /\ \A i \in 1..Len(binding.columns.l) :
          /\ binding.columns.l[i].k = "str"
          /\ \E j \in 1..Len(schema.columns.m) : schema.columns.m[j][1] = binding.columns.l[i].s
\* a binding that is a mapping with a `columns` list of strings
BindingWellFormed(binding) ==
    /\ binding.k = "dict" /\ binding.hasColumns /\ binding.columns.k = "list"
    /\ \A i \in 1..Len(binding.columns.l) : binding.columns.l[i].k = "str"
HasSource(d) == "source" \in d.present /\ d.source.k = "dict"
\* every source key matches, resolves, and binds existing columns
SourceResolves(d) ==
    /\ HasSource(d)
    /\ \A i \in 1..Len(d.source.m) :
          /\ KeyMatches(d.source.m[i][1])
          /\ KeyResolves(d.source.m[i][1])
          /\ ColumnsExist(d.source.m[i][2], LoadedSchema(d.source.m[i][1][2]))

NonEmptyText(v) == v.k = "str" /\ (v.s # "" \/ v.l # <<>>)
IsSupportedCall(v) == v.k = "str" /\ SupportedCallText(Chars(v))
AttributeKeySet == {"name", "desc", "calculation", "filter", "function", "synonym"}
MetricKeySet == {"name", "calculation", "function", "desc", "filter", "synonym"}
\* a metric with a non-empty name and a supported function call as calculation
MetricCarriesNameAndCall(e) ==
    /\ e.k = "dict"
    /\ Has(e.m, "name") /\ NonEmptyText(Get(e.m, "name"))
    /\ Has(e.m, "calculation") /\ IsSupportedCall(Get(e.m, "calculation"))
MetricsCarryNameAndCall(d) ==
    "metrics" \in d.present =>
        /\ d.metrics.k = "dict"
        /\ \A i \in 1..Len(d.metrics.m) : MetricCarriesNameAndCall(d.metrics.m[i][2])
\* ... and nothing else that is wrong: only allowed keys, a string function
MetricsWellFormed(d) ==
    /\ MetricsCarryNameAndCall(d)
    /\ "metrics" \in d.present =>
          \A i \in 1..Len(d.metrics.m) :
              /\ Keys(d.metrics.m[i][2].m) \subseteq MetricKeySet
              /\ Has(d.metrics.m[i][2].m, "function") => Get(d.metrics.m[i][2].m, "function").k = "str"
\* an attribute whose present fields are well-formed (its key set aside)
AttributeFieldsWellFormed(e) ==
    /\ e.k = "dict"
    /\ Has(e.m, "name") => Truthy(Get(e.m, "name"))
    /\ Has(e.m, "desc") => Truthy(Get(e.m, "desc"))
    /\ Has(e.m, "calculation") => IsSupportedCall(Get(e.m, "calculation"))
    /\ Has(e.m, "filter") =>
          /\ Get(e.m, "filter").k = "list"
          /\ \A i \in 1..Len(Get(e.m, "filter").l) : Get(e.m, "filter").l[i].k = "str"
AttributesWellFormed(d) ==
    "attributes" \in d.present =>
        /\ d.attributes.k = "dict"
        /\ \A i \in 1..Len(d.attributes.m) : AttributeFieldsWellFormed(d.attributes.m[i][2])

\* the conditions C2 lists
C2_Listed(d) ==
    /\ {"folder", "type"} \subseteq d.present
    /\ SourceResolves(d)
    /\ MetricsCarryNameAndCall(d)

\* C2 as stated: validate completes without raising for every document that
\* has folder and type, whose source keys match schema.<name>, resolve and
\* bind existing columns, and whose metrics each carry a non-empty name and a
\* supported function call as calculation.
C2_Original ==
    (SemValidated /\ C2_Listed(SemUnderTest)) => SemOutcome.error = Ok

\* C2 (amended): ... and that has at least one source key, attributes that
\* are absent or a mapping of well-formed entries, and metrics that carry
\* only allowed keys and, if any, a string `function`: validate completes
\* without raising and main logs "semantics is valid".
C2_ValidSemanticsPasses ==
    (/\ SemValidated
     /\ C2_Listed(SemUnderTest)
     /\ SemUnderTest.source.m # <<>>
     /\ AttributesWellFormed(SemUnderTest)
     /\ MetricsWellFormed(SemUnderTest))
        => SemOutcome.error = Ok /\ SemOutcome.log = "semantics is valid"
\* scenario 3 against scenario 1's schema, validated
C2_Witness ==
    /\ SemValidated
    /\ SemUnderTest = BaseSemantics
    /\ schemas_files = << <<<<"orders", "yml">>, OrdersSchema>> >>
    /\ SemOutcome.error = Ok

\* a top-level check of _check_required_keys / _validate_source is violated
EmptyOrAbsent(d, key, v) == key \notin d.present \/ v.k = "none" \/ (v.k = "dict" /\ v.m = <<>>)
TopLevelViolation(d) ==
    \/ "folder" \notin d.present
    \/ "type" \notin d.present
    \/ EmptyOrAbsent(d, "attributes", d.attributes) /\ EmptyOrAbsent(d, "metrics", d.metrics)
    \/ HasSource(d) /\ \E i \in 1..Len(d.source.m) :
           ~KeyMatches(d.source.m[i][1]) \/ ~BindingWellFormed(d.source.m[i][2])

\* C4: a document that violates a top-level check fails validation: validate
\* does not return normally and main never logs "semantics is valid" for it.
C4_TopLevelViolationFails ==
    (SemValidated /\ TopLevelViolation(SemUnderTest))
        => SemOutcome.error # Ok /\ SemOutcome.log # "semantics is valid"

\* a source key that names a schema no loaded file has as its stem
Unresolved(key) == Len(key) >= 2 /\ ~Loaded(key[2])

EarlierReferencesPass(d, j) ==
    /\ \A i \in 1..(j - 1) :
          /\ KeyResolves(d.source.m[i][1])
          /\ ColumnsExist(d.source.m[i][2], LoadedSchema(d.source.m[i][1][2]))
    /\ j > 1 => AttributesWellFormed(d) /\ MetricsWellFormed(d)

MetricsReached(d) ==
    /\ HasSource(d) /\ d.source.m # <<>>
    /\ KeyResolves(d.source.m[1][1])
    /\ ColumnsExist(d.source.m[1][2], LoadedSchema(d.source.m[1][1][2]))
    /\ AttributesWellFormed(d)
    /\ "metrics" \in d.present /\ d.metrics.k = "dict" /\ d.metrics.m # <<>>
    /\ d.metrics.m[1][2].k = "dict"
IsColumnOf(name, schema) == \E j \in 1..Len(schema.columns.m) : schema.columns.m[j][1] = name

\* C9: a metric with neither name nor calculation whose key is not a column
\* of the resolved schema fails with MissingKey; a metric that supplies name
\* or calculation is not rejected by the name-or-calculation rule.
C9_NameOrCalculationRule ==
    (SemValidated /\ MetricsReached(SemUnderTest)) =>
        LET key == SemUnderTest.metrics.m[1][1]
            m == SemUnderTest.metrics.m[1][2].m
            schema == LoadedSchema(SemUnderTest.source.m[1][1][2])
        IN  /\ (~Has(m, "name") /\ ~Has(m, "calculation") /\ ~IsColumnOf(key, schema))
                   => SemOutcome.error.kind = "MissingKey"
            /\ (Has(m, "name") \/ Has(m, "calculation"))
                   => SemOutcome.error \notin { Raise("MissingKey", "name or calculation"),
                                                Raise("TypeError", "schema['columns']") }

\* C10: when the source references resolve, an attribute entry with a key
\* outside {name, desc, calculation, filter, function, synonym} makes validate
\* fail with InvalidKey naming that key (the document being otherwise valid).
C10_AttributeKeysClosed ==
    (/\ SemValidated
     /\ C2_Listed(SemUnderTest) /\ SemUnderTest.source.m # <<>>
     /\ MetricsWellFormed(SemUnderTest)
     /\ AttributesWellFormed(SemUnderTest)
     /\ "attributes" \in SemUnderTest.present
     /\ \E i \in 1..Len(SemUnderTest.attributes.m) :
            ~(Keys(SemUnderTest.attributes.m[i][2].m) \subseteq AttributeKeySet))
        => /\ SemOutcome.error.kind = "InvalidKey"
           /\ \E i \in 1..Len(SemUnderTest.attributes.m) :
                  SemOutcome.error.key \in Keys(SemUnderTest.attributes.m[i][2].m) \ AttributeKeySet

(***************************************************************************)
(* Properties of SchemaValidator.validate as main.validate_schemas runs it *)
(* (under SpecSchema).  The predicates state what a valid schema document  *)
(* is on its own, not through the validator.                               *)
(***************************************************************************)
SchemaUnderTest == schemas_files[1][2]
SchemaValidated == Len(outcomes) = 1 /\ outcomes[1].phase = "schema"
SchemaResult == outcomes[1]

\* a join condition of the form <side> = <side>, the sides made of word
\* characters and dots
WellFormedJoin(j) ==
    /\ j.k = "str"
    /\ \E i \in 2..(Len(j.c) - 3) :
          /\ <<j.c[i], j.c[i + 1], j.c[i + 2]>> = <<" ", "=", " ">>
          /\ \A n \in (1..(i - 1)) \cup ((i + 3)..Len(j.c)) : j.c[n] \in WordChars \cup {"."}
\* table entries with a non-null table name and a well-formed joins list
WellFormedTableInfo(ti) ==
    /\ ti.k = "list"
    /\ \A i \in 1..Len(ti.l) :
          /\ ti.l[i].k = "dict" /\ ti.l[i].present = {"table", "joins"}
          /\ ti.l[i].table.k = "str"
          /\ ti.l[i].joins.k = "list"
          /\ \A n \in 1..Len(ti.l[i].joins.l) : WellFormedJoin(ti.l[i].joins.l[n])
TableNames(ti) == {ti.l[i].table.s : i \in 1..Len(ti.l)}
ValidIdentifiers == {"order_id", "qty", "_x9", "amount"}
NonBlankText(v) == v.k = "str" /\ v.s \notin {"", " "}
\* the tables a `table` value names: a string, or the elements of a list
TablesNamed(v) ==
    IF v.k = "str" THEN {v.s}
    ELSE IF v.k = "list" THEN {v.l[i].s : i \in 1..Len(v.l)} ELSE {}
IsTableValue(v) ==
    \/ v.k = "str"
    \/ v.k = "list" /\ \A i \in 1..Len(v.l) : v.l[i].k = "str"
\* a column that is well-formed, its `table` value set aside
WellFormedColumn(id, c) ==
    /\ id \in ValidIdentifiers
    /\ c.k = "dict"
    /\ Keys(c.m) \subseteq {"name", "type", "column", "desc", "primary_key", "table"}
    /\ \A key \in {"name", "type", "column", "desc"} : Has(c.m, key) /\ NonBlankText(Get(c.m, key))
    /\ Has(c.m, "primary_key") => Get(c.m, "primary_key").k = "bool"
    /\ Has(c.m, "table") => IsTableValue(Get(c.m, "table"))
\* a document that is valid but for the tables its columns name
OtherwiseValidSchema(d) ==
    /\ d.k = "dict" /\ d.present = TopKeys
    /\ WellFormedTableInfo(d.table_info)
    /\ d.columns.k = "dict"
    /\ \A i \in 1..Len(d.columns.m) : WellFormedColumn(d.columns.m[i][1], d.columns.m[i][2])
    /\ \A i, j \in 1..Len(d.columns.m) : d.columns.m[i][1] = d.columns.m[j][1] => i = j
\* the dangling table references of a document, column by column
Dangling(d, i) ==
    IF Has(d.columns.m[i][2].m, "table")
    THEN TablesNamed(Get(d.columns.m[i][2].m, "table")) \ TableNames(d.table_info)
    ELSE {}
ValidSchema(d) ==
    /\ OtherwiseValidSchema(d)
    /\ \A i \in 1..Len(d.columns.m) : Dangling(d, i) = {}

\* C1: validate reports pass (logs "validation passed", no violation) for
\* every valid schema document: required keys present, table entries with a
\* non-null table and well-formed joins, columns with a valid identifier,
\* non-empty name/type/column/desc, an optional boolean primary_key and an
\* optional `table` naming a table entry of the document (scenario 1).
C1_ValidSchemaPasses ==
    (SchemaValidated /\ ValidSchema(SchemaUnderTest))
        => SchemaResult.error = Ok /\ SchemaResult.log = "validation passed"

\* C3: for an otherwise valid schema document in which a column's `table`
\* value names a table that is no entry of table_info, validate reports a
\* MissingKey violation naming that dangling table reference.
C3_DanglingTableIsMissingKey ==
    (/\ SchemaValidated
     /\ OtherwiseValidSchema(SchemaUnderTest)
     /\ \E i \in 1..Len(SchemaUnderTest.columns.m) : Dangling(SchemaUnderTest, i) # {})
        => /\ SchemaResult.error.kind = "MissingKey"
           /\ \E i \in 1..Len(SchemaUnderTest.columns.m) :
                  SchemaResult.error.key \in Dangling(SchemaUnderTest, i)

\* the keys a column may carry according to _check_indentation
ClosedColumnKeys == {"name", "type", "column", "desc", "primary_key"}
\* the first column of the document is a mapping of plain values under a
\* valid identifier, and carries a key outside the closed set
FirstColumnHasUnexpectedKey(d) ==
    /\ d.k = "dict" /\ d.present = TopKeys
    /\ WellFormedTableInfo(d.table_info)
    /\ d.columns.k = "dict" /\ d.columns.m # <<>>
    /\ d.columns.m[1][1] \in ValidIdentifiers
    /\ d.columns.m[1][2].k = "dict"
    /\ \A i \in 1..Len(d.columns.m[1][2].m) : d.columns.m[1][2].m[i][2].k # "dict"
    /\ ~(Keys(d.columns.m[1][2].m) \subseteq ClosedColumnKeys)

\* C11: for a schema document with valid top-level keys and table_info, a
\* column mapping that contains a key outside {name, type, column, desc,
\* primary_key} makes the outcome InvalidKey naming such a key, whatever
\* else is wrong with that column's name/type/column/desc values.
C11_UnexpectedColumnKeyIsInvalidKey ==
    (SchemaValidated /\ FirstColumnHasUnexpectedKey(SchemaUnderTest))
        => /\ SchemaResult.error.kind = "InvalidKey"
           /\ SchemaResult.error.key \in Keys(SchemaUnderTest.columns.m[1][2].m) \ ClosedColumnKeys

\* c[from..to] is ident(.ident)*: word characters in non-empty segments
\* separated by single dots
IdentPath(c, from, to) ==
    /\ from <= to
    /\ \A n \in from..to : c[n] \in WordChars \cup {"."}
    /\ c[from] # "." /\ c[to] # "."
    /\ \A n \in from..(to - 1) : ~(c[n] = "." /\ c[n + 1] = ".")
\* a join condition of the form ident(.ident)* = ident(.ident)*
IdentJoin(j) ==
    /\ j.k = "str"
    /\ \E i \in 2..(Len(j.c) - 3) :
          /\ <<j.c[i], j.c[i + 1], j.c[i + 2]>> = <<" ", "=", " ">>
          /\ IdentPath(j.c, 1, i - 1)
          /\ IdentPath(j.c, i + 3, Len(j.c))
\* table entries that are mappings with a table name and a joins list of strings
TableEntriesCarryJoins(d) ==
    /\ d.k = "dict" /\ d.present = TopKeys
    /\ d.table_info.k = "list"
    /\ \A i \in 1..Len(d.table_info.l) :
          /\ d.table_info.l[i].k = "dict" /\ d.table_info.l[i].present = {"table", "joins"}
          /\ d.table_info.l[i].table.k = "str"
          /\ d.table_info.l[i].joins.k = "list"
          /\ \A n \in 1..Len(d.table_info.l[i].joins.l) : d.table_info.l[i].joins.l[n].k = "str"
JoinConditions(d) ==
    UNION { {d.table_info.l[i].joins.l[n] : n \in 1..Len(d.table_info.l[i].joins.l)} :
              i \in 1..Len(d.table_info.l) }
JoinRejected == SchemaResult.error = Raise("InvalidFormat", "join condition")

\* C12: a join condition is accepted only if it has the form
\* ident(.ident)* = ident(.ident)*; every other join condition (empty
\* segments, a leading or trailing dot, a side of dots only) yields
\* InvalidFormat; an empty joins list is always accepted.
C12_JoinConditionForm ==
    (SchemaValidated /\ TableEntriesCarryJoins(SchemaUnderTest)) =>
        /\ (\E j \in JoinConditions(SchemaUnderTest) : ~IdentJoin(j)) => JoinRejected
        /\ (\A j \in JoinConditions(SchemaUnderTest) : IdentJoin(j)) => ~JoinRejected

\* the first of subject_area, table_info, columns that a document lacks
FirstAbsentTopKey(d) ==
    IF "subject_area" \notin d.present THEN "subject_area"
    ELSE IF "table_info" \notin d.present THEN "table_info"
    ELSE "columns"

\* C13: for a schema document missing one or more of subject_area,
\* table_info, columns, validate reports MissingKey naming the first absent
\* key in that order, whatever table_info and columns hold: no table-info or
\* column check decides the outcome.
C13_FirstAbsentKeyIsMissingKey ==
    (SchemaValidated /\ SchemaUnderTest.k = "dict" /\ SchemaUnderTest.present # TopKeys)
        => /\ SchemaResult.error = Raise("MissingKey", FirstAbsentTopKey(SchemaUnderTest))
           /\ SchemaResult.log = "Validation Error"
\* subject_area is absent and the table_info that is present is not a list
C13_Witness ==
    /\ SchemaValidated
    /\ SchemaUnderTest.present = {"table_info", "columns"}
    /\ SchemaUnderTest.table_info.k # "list"
    /\ SchemaResult.error = Raise("MissingKey", "subject_area")

\* C14: validate never propagates an exception to its caller: each of the
\* four recognized violation kinds is caught and reported as a validation
\* error, any other failure is caught and reported distinctly as an
\* unexpected error, and "validation passed" is reported only when no check
\* failed.
C14_ValidateNeverPropagates ==
    SchemaValidated =>
        /\ SchemaResult.propagated = Ok
        /\ SchemaResult.error.kind \in RecognizedKinds <=> SchemaResult.log = "Validation Error"
        /\ SchemaResult.error.kind \notin RecognizedKinds \cup {"ok"}
               <=> SchemaResult.log = "unexpected error"
        /\ SchemaResult.error = Ok <=> SchemaResult.log = "validation passed"
\* a failure outside the four kinds: a table name that cannot be hashed
C14_Witness ==
    /\ SchemaValidated
    /\ SchemaResult.error.kind = "TypeError"
    /\ SchemaResult.log = "unexpected error"
    /\ SchemaResult.propagated = Ok

(***************************************************************************)
(* main: a batch run over the loaded schema files, then over the loaded    *)
(* semantics files.                                                        *)
(***************************************************************************)
\* the names os.listdir gives the files of each directory, in order
SchemaFileNames ==
    << <<"orders", "yml">>, <<"customers", "yaml">>, <<"sales", "yml">>, <<"hr", "yml">> >>
SemanticsFileNames ==
    << <<"sales", "yml">>, <<"hr", "yaml">>, <<"ops", "yml">>, <<"crm", "yml">> >>
\* schema documents: one that passes, scenario 1, one without columns, and one
\* whose table name is a list
UnhashableTableSchema ==
    SchemaDoc(TopKeys,
              [k |-> "list", l |-> <<TableEntry(ListV(<<Item("str", "orders")>>), <<>>)>>],
              ColumnsOf(<<"order_id">>))
BatchSchemas ==
    { SalesSchema, OrdersSchema,
      SchemaDoc({"subject_area", "table_info"}, BaseTableInfo, ColumnsOf(<<"order_id">>)),
      UnhashableTableSchema }
\* semantics documents: scenario 3, scenario 3 with metrics that are a list,
\* and scenario 3 without folder
BatchSemantics ==
    { BaseSemantics,
      SemDoc(BasePresent, BaseSource, NoAttributes, [k |-> "list", m |-> <<>>]),
      SemDoc(BasePresent \ {"folder"}, BaseSource, NoAttributes, BaseMetrics) }

\* load_metadata_files has returned
Init ==
    /\ \E n \in 0..MaxFiles : \E docs \in [1..n -> BatchSchemas] :
          schemas_files = [i \in 1..n |-> <<SchemaFileNames[i], docs[i]>>]
    /\ \E n \in 0..MaxFiles : \E docs \in [1..n -> BatchSemantics] :
          semantics_files = [i \in 1..n |-> <<SemanticsFileNames[i], docs[i]>>]
    /\ pc = "schemas"
    /\ idx = 1
    /\ outcomes = <<>>
    /\ call = NoneV
    /\ ret = Ok

\* main calls validate_semantics after validate_schemas has returned
CallValidateSemantics ==
    /\ pc = "schemas returned"
    /\ pc' = "semantics"
    /\ idx' = 1
    /\ UNCHANGED <<schemas_files, semantics_files, outcomes, call, ret>>

Next ==
    \/ ValidateSchemaFile
    \/ SchemasDone
    \/ CallValidateSemantics
    \/ ValidateSemanticsFile
    \/ SemanticsDone
Spec == Init /\ [][Next]_vars
\* how a step of Next moves main's position: the loops advance by one file,
\* and each call returns to the statement after it
Advance ==
    \/ pc = "schemas" /\ idx <= Len(schemas_files) /\ idx' = idx + 1 /\ pc' = pc
    \/ pc = "schemas" /\ idx > Len(schemas_files) /\ idx' = idx /\ pc' = "schemas returned"
    \/ pc = "schemas returned" /\ idx' = 1 /\ pc' = "semantics"
    \/ pc = "semantics" /\ idx <= Len(semantics_files) /\ idx' = idx + 1 /\ pc' = pc
    \/ pc = "semantics" /\ idx > Len(semantics_files) /\ idx' = idx /\ pc' = "done"
\* main is one sequential thread and every step of it returns: it keeps
\* taking its next step until it is done.  Every step of Next is a step of
\* Advance and is enabled when Advance is, so this is weak fairness of Next,
\* stated on the position alone.
FairSpec == Spec /\ WF_<<pc, idx>>(Advance)

\* the documents of a run in the order main takes them
DocumentCount == Len(schemas_files) + Len(semantics_files)
\* what validating the i-th document on its own reports
OwnOutcome(i) ==
    IF i <= Len(schemas_files)
    THEN SchemaOutcome(schemas_files[i][1], schemas_files[i][2])
    ELSE SemanticsOutcome(semantics_files[i - Len(schemas_files)][1],
                          semantics_files[i - Len(schemas_files)][2], schemas_files)
\* the outcomes reported so far are those of the first documents, one each
OutcomesInOrder ==
    /\ Len(outcomes) <= DocumentCount
    /\ \A i \in 1..Len(outcomes) : outcomes[i] = OwnOutcome(i)
\* a step reports at most one more outcome and alters none already reported
OutcomesOnlyGrow ==
    \/ outcomes' = outcomes
    \/ \E o \in {OwnOutcome(Len(outcomes) + 1)} : outcomes' = Append(outcomes, o)

\* C15: in a batch run over any schema documents followed by any semantics
\* documents, every document is eventually validated exactly once and gets
\* its own outcome: a failure of one document never stops or skips the
\* documents after it and never changes an outcome already reported.
C15_EveryDocumentValidatedOnce ==
    /\ []OutcomesInOrder
    /\ [][Len(outcomes) < DocumentCount /\ OutcomesOnlyGrow]_outcomes
    /\ <>[](pc = "done" /\ Len(outcomes) = DocumentCount)
\* the run is over; the first schema failed unexpectedly and the second one
\* passed, the first semantics failed and the second one passed
C15_Witness ==
    /\ pc = "done"
    /\ Len(schemas_files) = 2 /\ Len(semantics_files) = 2
    /\ Len(outcomes) = 4
    /\ outcomes[1].log = "unexpected error" /\ outcomes[2].log = "validation passed"
    /\ outcomes[3].log = "Semantics validation failed" /\ outcomes[4].log = "semantics is valid"
    /\ outcomes[4].error = Ok /\ outcomes[4].swallowed = <<Ok>>

====
